---- MODULE Spec2Model ----
(***************************************************************************)
(* Front-matter validation of the "posts" content collection               *)
(* (src/content/config.ts).                                                *)
(*                                                                         *)
(* A front matter is the object the YAML block of a Markdown document      *)
(* parses to: a function from the keys that are present to JavaScript      *)
(* values.  A JavaScript value is a record [type, val]: type is the type   *)
(* the schema library dispatches on ("string", "number", "boolean",        *)
(* "null", "date", "undefined"), val is the value's content written as a   *)
(* string (a Date's val is its time, "NaN" for an Invalid Date).           *)
(***************************************************************************)
EXTENDS Integers, Sequences, FiniteSets, TLC

VARIABLES entry, result, again, files, pending, store, errors

vars == <<entry, result, again, files, pending, store, errors>>

(***************************************************************************)
(* JavaScript values.                                                      *)
(***************************************************************************)
Undefined == [type |-> "undefined", val |-> "undefined"]

Null == [type |-> "null", val |-> "null"]

Str(s) == [type |-> "string", val |-> s]

Num(n) == [type |-> "number", val |-> n]

True == [type |-> "boolean", val |-> "true"]

False == [type |-> "boolean", val |-> "false"]

\* A Date object; time is its time value, "NaN" for an Invalid Date.
DateObj(time) == [type |-> "date", val |-> time]

getParsedType(x) == x.type

\* The value of key k of a front matter: undefined when the key is absent.
Get(input, k) == IF k \in DOMAIN input THEN input[k] ELSE Undefined

(***************************************************************************)
(* Parse results of the schema's validators: a status, the parsed value    *)
(* and the issues raised.                                                  *)
(***************************************************************************)
OK(v) == [status |-> "valid", value |-> v, issues |-> {}]

Issue(code, expected, x, path) ==
  [code |-> code, expected |-> expected, received |-> getParsedType(x), path |-> path]

INVALID(issue) == [status |-> "aborted", value |-> Undefined, issues |-> {issue}]

\* Mutation: z.coerce.string() in place of z.string(): numbers and booleans
\* are converted to strings.
ZodString_coerce(x, path) ==
  IF getParsedType(x) \in {"string", "number", "boolean"}
  THEN OK(Str(x.val))
  ELSE INVALID(Issue("invalid_type", "string", x, path))

\* Mutation: z.string().min(1): the empty string is refused.
ZodString_nonempty(x, path) ==
  IF getParsedType(x) # "string"
  THEN INVALID(Issue("invalid_type", "string", x, path))
  ELSE IF x.val = ""
       THEN INVALID(Issue("too_small", "string", x, path))
       ELSE OK(x)

\* z.string(): a string and nothing else; no coercion, no length check.
ZodString(x, path) ==
  IF getParsedType(x) # "string"
  THEN INVALID(Issue("invalid_type", "string", x, path))
  ELSE OK(x)

\* The strings of the model that Date.parse turns into a time.
ParseableDateStrings == {"2026-01-28", "2025-01-20"}

\* Mutation: the check for an Invalid Date is left out.
ZodDate_noInvalidCheck(x, path) ==
  IF getParsedType(x) # "date"
  THEN INVALID(Issue("invalid_type", "date", x, path))
  ELSE OK(DateObj(x.val))

\* Mutation: z.coerce.date() in place of z.date(): a date string is
\* converted with new Date(x).
ZodDate_coerce(x, path) ==
  LET data == IF getParsedType(x) = "string"
              THEN DateObj(IF x.val \in ParseableDateStrings THEN x.val ELSE "NaN")
              ELSE x
  IN  IF getParsedType(data) # "date"
      THEN INVALID(Issue("invalid_type", "date", data, path))
      ELSE IF data.val = "NaN"
           THEN INVALID(Issue("invalid_date", "date", data, path))
           ELSE OK(DateObj(data.val))

\* Mutation: the date is handed on as its ISO string
\* (z.date().transform(d => d.toISOString())).
ZodDate_toISOString(x, path) ==
  IF getParsedType(x) # "date"
  THEN INVALID(Issue("invalid_type", "date", x, path))
  ELSE IF x.val = "NaN"
       THEN INVALID(Issue("invalid_date", "date", x, path))
       ELSE OK(Str(x.val))

\* z.date(): a Date object whose time is not NaN; no coercion from strings
\* or numbers.
ZodDate(x, path) ==
  IF getParsedType(x) # "date"
  THEN INVALID(Issue("invalid_type", "date", x, path))
  ELSE IF x.val = "NaN"
       THEN INVALID(Issue("invalid_date", "date", x, path))
       ELSE OK(DateObj(x.val))

\* z.boolean(): true or false and nothing else.
ZodBoolean(x, path) ==
  IF getParsedType(x) # "boolean"
  THEN INVALID(Issue("invalid_type", "boolean", x, path))
  ELSE OK(x)

\* Mutation: .nullish() in place of .optional(): null passes through too.
ZodBooleanOptional_nullish(x, path) ==
  IF getParsedType(x) \in {"undefined", "null"} THEN OK(x) ELSE ZodBoolean(x, path)

\* z.boolean().optional(): undefined passes through; anything else is
\* handed to z.boolean().
ZodBooleanOptional(x, path) ==
  IF getParsedType(x) = "undefined" THEN OK(Undefined) ELSE ZodBoolean(x, path)

\* Mutation: .default(true).
defaultValue_true == True

\* The value .default(false) substitutes.
defaultValue == False

\* Mutation: the default replaces whatever was supplied.
ZodBooleanOptionalDefault_always(x, path) == ZodBooleanOptional(defaultValue, path)

\* Mutation: .default(false) is left out.
ZodBooleanOptionalDefault_noDefault(x, path) == ZodBooleanOptional(x, path)

\* z.boolean().optional().default(false): undefined (and only undefined)
\* is replaced by the default before the inner validator runs.
ZodBooleanOptionalDefault(x, path) ==
  LET data == IF getParsedType(x) = "undefined" THEN defaultValue ELSE x
  IN  ZodBooleanOptional(data, path)

(***************************************************************************)
(* The fields of posts.schema.                                             *)
(***************************************************************************)
\* Mutation: z.string().optional() for the title.
title_optional(x) ==
  IF getParsedType(x) = "undefined" THEN OK(Undefined) ELSE ZodString(x, "title")

title(x) == ZodString(x, "title")

description(x) == ZodString(x, "description")

\* Mutation: date: z.string(), which refuses the Date a YAML timestamp is.
date_string(x) == ZodString(x, "date")

date(x) == ZodDate(x, "date")

draft(x) == ZodBooleanOptionalDefault(x, "draft")

\* The keys of the object schema's shape.
shape == {"title", "description", "date", "draft"}

Validator(k, x) ==
  CASE k = "title" -> title(x)
    [] k = "description" -> description(x)
    [] k = "date" -> date(x)
    [] k = "draft" -> draft(x)

NoData == [k \in {} |-> Undefined]

\* Mutation: z.object({...}).passthrough(): unknown keys are kept.
schema_passthrough(input) ==
  LET pairs == [k \in shape |-> Validator(k, Get(input, k))]
      issues == UNION {pairs[k].issues : k \in shape}
      set == {k \in shape : k \in DOMAIN input \/ pairs[k].value # Undefined}
  IN  IF \E k \in shape : pairs[k].status = "aborted"
      THEN [success |-> FALSE, data |-> NoData, issues |-> issues]
      ELSE [success |-> TRUE,
            data |-> [k \in set \cup DOMAIN input |->
                        IF k \in shape THEN pairs[k].value ELSE input[k]],
            issues |-> {}]

\* posts.schema, z.object({...}), applied to a front matter: every key of
\* the shape is validated (an absent key as undefined) and all issues are
\* collected; any issue fails the parse.  On success the data holds the
\* keys of the shape that were present or parsed to a defined value, and
\* no other key (unknown keys are stripped).
schema(input) ==
  LET pairs == [k \in shape |-> Validator(k, Get(input, k))]
      issues == UNION {pairs[k].issues : k \in shape}
      set == {k \in shape : k \in DOMAIN input \/ pairs[k].value # Undefined}
  IN  IF \E k \in shape : pairs[k].status = "aborted"
      THEN [success |-> FALSE, data |-> NoData, issues |-> issues]
      ELSE [success |-> TRUE, data |-> [k \in set |-> pairs[k].value], issues |-> {}]

\* z.object(...).safeParse as the framework calls it on an entry.
safeParse(input) == schema(input)

(***************************************************************************)
(* The collection and the registry of collections.                         *)
(***************************************************************************)
\* defineCollection({ type: 'content', schema }): a collection of Markdown
\* documents.  The schema itself is the operator schema above.
posts == [type |-> "content", schema |-> "z.object"]

\* Mutation: a second collection is registered.
collections_two == [posts |-> posts, drafts |-> posts]

\* export const collections = { posts }
collections == [posts |-> posts]

(***************************************************************************)
(* Inputs.                                                                 *)
(***************************************************************************)
\* The front matter of the two documents under src/content/posts.  YAML
\* resolves an unquoted 2026-01-28 to a timestamp, i.e. a Date object.
Post01 ==
  [title |-> Str("CMake Toolchain Files in Embedded Projects"),
   description |-> Str("Two coherent approaches to structuring toolchain files and platform configuration in embedded CMake builds."),
   date |-> DateObj("2026-01-28")]

Post02 ==
  [title |-> Str("Platform Target Wrappers in CMake (Embedded)"),
   description |-> Str("Creating minimal add_executable and add_library wrappers for embedded targets, with safety mechanisms and useful extras."),
   date |-> DateObj("2025-01-20")]

\* Marks a key as left out when a front matter is put together.
Absent == [type |-> "absent", val |-> "absent"]

\* A key that the schema does not know.
ExtraKey == "tags"

\* The front matter with the given values, without the keys marked Absent.
FrontMatter(t, d, dt, dr, x) ==
  LET all == [k \in shape \cup {ExtraKey} |->
                CASE k = "title" -> t
                  [] k = "description" -> d
                  [] k = "date" -> dt
                  [] k = "draft" -> dr
                  [] k = ExtraKey -> x]
  IN  [k \in {k \in DOMAIN all : all[k] # Absent} |-> all[k]]

\* The values a YAML front matter can give a key: null, strings (empty, a
\* date written as a quoted string, a word), a number, the booleans, a
\* timestamp, and a Date that is invalid.
Values ==
  {Null, Str(""), Str("2026-01-28"), Str("true"), Num("1"), True, False,
   DateObj("2026-01-28"), DateObj("NaN")}

FrontMatters ==
  {FrontMatter(t, d, dt, dr, x) :
     t \in Values \cup {Absent}, d \in Values \cup {Absent},
     dt \in Values \cup {Absent}, dr \in Values \cup {Absent},
     x \in {Absent, Str("cmake")}}
  \cup {Post01, Post02}

\* The documents a content directory is filled with in the build runs.
BuildFrontMatters ==
  {FrontMatter(t, d, dt, dr, Absent) :
     t \in {Str(""), Num("1")}, d \in {Str("")},
     dt \in {DateObj("2026-01-28"), Str("2026-01-28")},
     dr \in {Absent, True, Str("true")}}
  \cup {Post01, Post02}

\* The number of documents in the content directory.
MaxFiles == 3

Ids == 1..MaxFiles

(***************************************************************************)
(* State.                                                                  *)
(*   entry, result   the front matter handed to safeParse and what it      *)
(*                   returned (NoResult before the call)                   *)
(*   again           what safeParse returned for the validated data of an  *)
(*                   accepted entry (NoResult before that call)            *)
(*   files           the documents of the content directory, by id         *)
(*   pending         the ids not yet validated                             *)
(*   store           per collection, the validated data of the accepted    *)
(*                   entries, by id                                        *)
(*   errors          the schema errors of the rejected entries, by id      *)
(***************************************************************************)
\* Before an entry is validated (a failed parse always has an issue).
NoResult == [success |-> FALSE, data |-> NoData, issues |-> {}]

NoEntries == [i \in {} |-> NoData]

EmptyStore == [c \in DOMAIN collections |-> NoEntries]

Put(f, k, v) == [x \in DOMAIN f \cup {k} |-> IF x = k THEN v ELSE f[x]]

(***************************************************************************)
(* Spec: one front matter is validated.                                    *)
(***************************************************************************)
Init ==
  /\ entry \in FrontMatters
  /\ result = NoResult
  /\ again = NoResult
  /\ files = << >>
  /\ pending = {}
  /\ store = EmptyStore
  /\ errors = NoEntries

Validate ==
  /\ result = NoResult
  /\ result' = safeParse(entry)
  /\ UNCHANGED <<entry, again, files, pending, store, errors>>

\* The validated data of an accepted entry is handed to the schema again.
Revalidate ==
  /\ result.success
  /\ again = NoResult
  /\ again' = safeParse(result.data)
  /\ UNCHANGED <<entry, result, files, pending, store, errors>>

Next == Validate \/ Revalidate

Spec == Init /\ [][Next]_vars

(***************************************************************************)
(* BuildSpec: the build validates every document of the content directory, *)
(* in any order.  An accepted entry's validated data enters the            *)
(* collection's store; a rejected entry is reported with its schema error. *)
(* (A build that stops at the first schema error is a prefix of a run.)    *)
(***************************************************************************)
BuildInit ==
  /\ files \in [Ids -> BuildFrontMatters]
  /\ pending = Ids
  /\ store = EmptyStore
  /\ errors = NoEntries
  /\ entry = NoData
  /\ result = NoResult
  /\ again = NoResult

\* Mutation: the entry is stored whatever the outcome of the validation.
AddEntry_always(st, id, r) == [st EXCEPT !["posts"] = Put(@, id, r.data)]

\* Mutation: an entry whose data equals that of an entry already in the
\* collection is taken for a duplicate and left out.
AddEntry_skipDuplicates(st, id, r) ==
  IF r.success /\ ~\E k \in DOMAIN st["posts"] : st["posts"][k] = r.data
  THEN [st EXCEPT !["posts"] = Put(@, id, r.data)]
  ELSE st

\* The store after entry id of the collection was validated with outcome r.
AddEntry(st, id, r) ==
  IF r.success THEN [st EXCEPT !["posts"] = Put(@, id, r.data)] ELSE st

ReportError(errs, id, r) ==
  IF r.success THEN errs ELSE Put(errs, id, r.issues)

ValidateEntry(id) ==
  /\ id \in pending
  /\ LET r == safeParse(files[id])
     IN  /\ entry' = files[id]
         /\ result' = r
         /\ store' = AddEntry(store, id, r)
         /\ errors' = ReportError(errors, id, r)
  /\ pending' = pending \ {id}
  /\ UNCHANGED <<files, again>>

BuildNext == \E id \in Ids : ValidateEntry(id)

BuildSpec == BuildInit /\ [][BuildNext]_vars

(***************************************************************************)
(* Vocabulary of the properties.  The contract is written out on the       *)
(* front matter itself, not through the validators.                        *)
(***************************************************************************)
Validated == result # NoResult

IsString(v) == v.type = "string"

IsBoolean(v) == v.type = "boolean" /\ v.val \in {"true", "false"}

IsValidDate(v) == v.type = "date" /\ v.val # "NaN"

\* A value that can be parsed to a date: a valid Date object, or a string
\* that Date.parse accepts.
ParseableToDate(v) ==
  IsValidDate(v) \/ (v.type = "string" /\ v.val \in ParseableDateStrings)

\* Key k of front matter fm is as the contract wants it.
WellTyped(fm, k) ==
  CASE k = "title" -> k \in DOMAIN fm /\ IsString(fm[k])
    [] k = "description" -> k \in DOMAIN fm /\ IsString(fm[k])
    [] k = "date" -> k \in DOMAIN fm /\ IsValidDate(fm[k])
    [] k = "draft" -> k \notin DOMAIN fm \/ IsBoolean(fm[k])

\* All keys of the shape but k are as the contract wants them.
OthersWellTyped(fm, k) == \A j \in shape \ {k} : WellTyped(fm, j)

\* r is a rejection that carries a schema error for key k.
SchemaError(r, k) == ~r.success /\ \E i \in r.issues : i.path = k

required == {"title", "description", "date"}

\* C1: a front matter that lacks title, description or date, the other
\* fields being well typed, is rejected, and the schema error is exactly
\* the one issue "required" (invalid_type, received undefined) at the
\* missing key; this for each of the three keys.
C1_MissingRequiredRejected ==
  Validated =>
    \A k \in required :
      (k \notin DOMAIN entry /\ OthersWellTyped(entry, k)) =>
        /\ ~result.success
        /\ result.data = NoData
        /\ \A i \in result.issues :
             i.path = k /\ i.code = "invalid_type" /\ i.received = "undefined"
        /\ SchemaError(result, k)

C1_Witness ==
  /\ Validated
  /\ "date" \notin DOMAIN entry
  /\ OthersWellTyped(entry, "date")
  /\ SchemaError(result, "date")

\* C2: with title and description valid strings, a date that is present
\* and cannot be parsed to a date (a non-date string, a boolean, a number,
\* null, an Invalid Date) is rejected with a schema error at date.
C2_UnparseableDateRejected ==
  (/\ Validated
   /\ WellTyped(entry, "title")
   /\ WellTyped(entry, "description")
   /\ "date" \in DOMAIN entry
   /\ ~ParseableToDate(entry["date"]))
  => SchemaError(result, "date")

C2_Witness ==
  /\ Validated
  /\ OthersWellTyped(entry, "date")
  /\ "date" \in DOMAIN entry
  /\ entry["date"] = DateObj("NaN")
  /\ \E i \in result.issues : i.path = "date" /\ i.code = "invalid_date"

\* C3 as stated: an entry with string title and description (and a draft
\* that is absent or boolean) is accepted for every date that is parseable
\* to a date, a Date object or a parseable date string alike.
C3_ParseableDateAccepted ==
  (/\ Validated
   /\ OthersWellTyped(entry, "date")
   /\ "date" \in DOMAIN entry
   /\ ParseableToDate(entry["date"]))
  => result.success

\* C3 amended: such an entry is accepted, with the date kept, when the
\* date arrives as a valid Date object; when it arrives as a string, a
\* parseable one included, it is rejected with invalid_type at date.
C3_DateObjectAccepted ==
  (Validated /\ OthersWellTyped(entry, "date") /\ "date" \in DOMAIN entry) =>
    /\ IsValidDate(entry["date"]) =>
         result.success /\ result.data["date"] = entry["date"]
    /\ IsString(entry["date"]) =>
         /\ SchemaError(result, "date")
         /\ \A i \in result.issues : i.code = "invalid_type" /\ i.received = "string"

C3_Witness ==
  /\ Validated
  /\ OthersWellTyped(entry, "date")
  /\ "date" \in DOMAIN entry
  /\ entry["date"] = DateObj("2026-01-28")
  /\ result.success

\* C4: an otherwise valid entry without draft is accepted and its
\* validated draft is false.
C4_AbsentDraftIsFalse ==
  (Validated /\ "draft" \notin DOMAIN entry /\ OthersWellTyped(entry, "draft")) =>
    /\ result.success
    /\ "draft" \in DOMAIN result.data
    /\ result.data["draft"] = False

C4_Witness ==
  /\ Validated
  /\ "draft" \notin DOMAIN entry
  /\ OthersWellTyped(entry, "draft")
  /\ result.success
  /\ result.data["draft"] = False

\* C5: an otherwise valid entry that supplies a boolean draft is accepted
\* and its validated draft is the supplied value.
C5_SuppliedDraftKept ==
  (/\ Validated
   /\ "draft" \in DOMAIN entry
   /\ IsBoolean(entry["draft"])
   /\ OthersWellTyped(entry, "draft"))
  => (result.success /\ result.data["draft"] = entry["draft"])

C5_Witness ==
  /\ Validated
  /\ "draft" \in DOMAIN entry
  /\ entry["draft"] = True
  /\ OthersWellTyped(entry, "draft")
  /\ result.success
  /\ result.data["draft"] = True

\* C6: an entry whose title or description is present but not a string is
\* rejected with a schema error (invalid_type) at that key.
C6_NonStringRejected ==
  Validated =>
    \A k \in {"title", "description"} :
      (k \in DOMAIN entry /\ ~IsString(entry[k])) =>
        /\ SchemaError(result, k)
        /\ \E i \in result.issues :
             i.path = k /\ i.code = "invalid_type" /\ i.expected = "string"

C6_Witness ==
  /\ Validated
  /\ "description" \in DOMAIN entry
  /\ entry["description"] = Num("1")
  /\ OthersWellTyped(entry, "description")
  /\ SchemaError(result, "description")

\* C7: an entry that supplies a draft that is not a boolean (the string
\* "true", a number, null, a date) is rejected with a schema error at
\* draft; it is neither coerced nor defaulted.
C7_NonBooleanDraftRejected ==
  (Validated /\ "draft" \in DOMAIN entry /\ ~IsBoolean(entry["draft"])) =>
    /\ SchemaError(result, "draft")
    /\ result.data = NoData

C7_Witness ==
  /\ Validated
  /\ "draft" \in DOMAIN entry
  /\ entry["draft"] = Null
  /\ OthersWellTyped(entry, "draft")
  /\ SchemaError(result, "draft")

\* C10: the validated data of every accepted entry has title and
\* description strings, date a valid Date, and draft a boolean that is
\* always there, whether or not the front matter supplied it.
C10_AcceptedDataTyped ==
  (Validated /\ result.success) =>
    /\ shape \subseteq DOMAIN result.data
    /\ IsString(result.data["title"])
    /\ IsString(result.data["description"])
    /\ IsValidDate(result.data["date"])
    /\ IsBoolean(result.data["draft"])

C10_Witness ==
  /\ Validated
  /\ result.success
  /\ "draft" \notin DOMAIN entry
  /\ IsBoolean(result.data["draft"])
  /\ entry = Post02

\* The entries of the posts collection, and the ids already validated.
accepted == DOMAIN store["posts"]

validated == Ids \ pending

\* All keys of the shape are as the contract wants them.
AllWellTyped(fm) == \A k \in shape : WellTyped(fm, k)

\* C8, the state part: every entry of the posts collection was validated,
\* passed the schema, is well typed, holds the data the schema returned
\* and has no schema error; every validated entry that failed the schema
\* is reported and is not in the collection.
C8_OnlyValidInCollection ==
  /\ \A id \in accepted :
       /\ id \in validated
       /\ safeParse(files[id]).success
       /\ AllWellTyped(files[id])
       /\ store["posts"][id] = safeParse(files[id]).data
       /\ id \notin DOMAIN errors
  /\ \A id \in validated :
       ~AllWellTyped(files[id]) => (id \notin accepted /\ id \in DOMAIN errors)

\* C8, the step part: a validation that rejects leaves the collection as
\* it was, and no validation removes or alters an accepted entry.
C8_RejectionKeepsCollection ==
  /\ (pending' # pending /\ ~result'.success) => store' = store
  /\ \A id \in accepted :
       id \in DOMAIN store'["posts"] /\ store'["posts"][id] = store["posts"][id]

C9_OnlyPostsCollection ==
  /\ DOMAIN collections = {"posts"}
  /\ collections["posts"].type = "content"
  /\ DOMAIN store = {"posts"}

C9_Witness ==
  /\ pending = {}
  /\ DOMAIN store = {"posts"}
  /\ accepted = Ids

\* C11: validation is idempotent: the validated data of an accepted entry,
\* validated again, is accepted and comes back unchanged, draft included.
C11_Idempotent ==
  again # NoResult =>
    /\ again.success
    /\ again.data = result.data
    /\ again.data["draft"] = result.data["draft"]
    /\ again.issues = {}

\* The second pass ran on data whose draft the first pass had defaulted.
C11_Witness ==
  /\ again # NoResult
  /\ "draft" \notin DOMAIN entry
  /\ result.data # entry
  /\ again.success
  /\ again.data = result.data

\* The keys of a front matter that the schema does not know.
UnknownKeys(fm) == DOMAIN fm \ shape

\* C12: keys other than title, description, date and draft do not cause
\* rejection: an otherwise valid entry that has them is accepted, and no
\* issue of a rejected one is about them; they are not in the validated
\* data, which holds the keys of the shape and nothing else.
C12_UnknownKeysStripped ==
  (Validated /\ UnknownKeys(entry) # {}) =>
    /\ AllWellTyped(entry) => result.success
    /\ result.success => DOMAIN result.data = shape
    /\ \A i \in result.issues : i.path \in shape

C12_Witness ==
  /\ Validated
  /\ ExtraKey \in DOMAIN entry
  /\ AllWellTyped(entry)
  /\ result.success
  /\ ExtraKey \notin DOMAIN result.data

\* C13: acceptance depends on the presence and type of the fields only,
\* not on their content: an entry is accepted exactly when its fields are
\* well typed, and in particular one whose title or description is the
\* empty string is accepted, the empty string kept, when its date is a
\* valid Date (and its draft absent or boolean).
C13_EmptyStringsAccepted ==
  Validated =>
    /\ result.success <=> AllWellTyped(entry)
    /\ \A k \in {"title", "description"} :
         (k \in DOMAIN entry /\ entry[k] = Str("") /\ OthersWellTyped(entry, k)) =>
           (result.success /\ result.data[k] = Str(""))

C13_Witness ==
  /\ Validated
  /\ AllWellTyped(entry)
  /\ entry["title"] = Str("")
  /\ entry["description"] = Str("")
  /\ result.success
  /\ result.data["title"] = Str("")

\* The documents the repository ships.
ShippedPosts == {Post01, Post02}

\* C14: both shipped posts supply title, description and date and leave
\* out draft; validated by the build, each is accepted, without a schema
\* error, and its validated draft is false.
C14_ShippedPostsAccepted ==
  /\ \A p \in ShippedPosts : required \subseteq DOMAIN p /\ "draft" \notin DOMAIN p
  /\ \A id \in validated :
       files[id] \in ShippedPosts =>
         /\ id \in accepted
         /\ id \notin DOMAIN errors
         /\ store["posts"][id]["draft"] = False
         /\ store["posts"][id]["title"] = files[id]["title"]
         /\ store["posts"][id]["date"] = files[id]["date"]

\* The content directory as shipped, both documents validated.
C14_Witness ==
  /\ files[1] = Post01
  /\ files[2] = Post02
  /\ {1, 2} \subseteq accepted
  /\ store["posts"][1]["draft"] = False
  /\ store["posts"][2]["draft"] = False

rejected == DOMAIN errors

====
